---- MODULE Spec2Model ----
(***************************************************************************)
(* Model of src/main.py: the images-to-PDF converter.                      *)
(*                                                                         *)
(* convert_images_to_pdf globs the input directory, natural-sorts the      *)
(* paths, enumerates and chunks them, runs process_image_chunk over the    *)
(* chunks in a multiprocessing Pool (imap_unordered), accumulates the      *)
(* results, filters the successes and hands them to                        *)
(* create_pdf_from_buffers, which sorts them by index and writes one page  *)
(* per image.                                                              *)
(*                                                                         *)
(* Numbers: Python floats are modelled as exact rationals; int(x) is the   *)
(* floor of a non-negative rational, computed with integer division.       *)
(* A4 = (210 mm, 297 mm) with mm = 72/25.4 points, so                      *)
(* A4[0] * dpi / 72 = 1050 * dpi / 127 and A4[1] * dpi / 72 =              *)
(* 1485 * dpi / 127; the factor 72 is cancelled before multiplying.        *)
(***************************************************************************)
EXTENDS Integers, Sequences, FiniteSets, TLC

VARIABLES
    pc,                 \* position in convert_images_to_pdf
    directory,          \* the files present in INPUT_DIRECTORY (names)
    max_workers,        \* int(os.getenv('MAX_WORKERS', '10'))
    cpus,               \* cpu_count()
    chunk_size,         \* the chunk size of the run (CHUNK_SIZE)
    discovered,         \* image_files as globbed, before the sort
    image_files,        \* image_files after the sort
    chunks,             \* chunks
    n_workers,          \* n_workers
    pool_started,       \* a Pool was created
    dispatched,         \* number of chunks handed to workers (task queue is FIFO)
    running,            \* chunk numbers being processed by a worker
    outqueue,           \* completed chunk results, in completion order
    reported,           \* number of chunk results consumed by the main loop
    all_results,        \* all_results
    converted_count,    \* converted_count
    skipped_count,      \* skipped_count
    successful_results, \* successful_results, sorted in place by the compositor
    doc_opened,         \* canvas.Canvas(...) was created
    pos,                \* position of the compositor's loop (1-based)
    pages,              \* indices of the pages committed by c.showPage(), in order
    placed,             \* the drawImage calls that succeeded: index, x, y, size
    attempts,           \* indices whose placement was attempted, in order
    error_log,          \* indices logged by "Error adding image to PDF"
    closed,             \* indices whose buffer was closed
    saved,              \* number of times c.save() ran
    summary             \* the counts logged at the end of the run

vars == << pc, directory, max_workers, cpus, chunk_size, discovered, image_files,
           chunks, n_workers, pool_started, dispatched, running, outqueue,
           reported, all_results, converted_count, skipped_count,
           successful_results, doc_opened, pos, pages, placed, attempts,
           error_log, closed, saved, summary >>

-----------------------------------------------------------------------------
(* Bounds of the model *)

MaxFiles == 3

(* Program constants *)

WEBP_QUALITY == 80
IMAGE_DPI == 300
CHUNK_SIZE == 5
DEFAULT_MAX_WORKERS == 10

-----------------------------------------------------------------------------
(* Small helpers *)

Min(a, b) == IF a < b THEN a ELSE b

Abs(a) == IF a < 0 THEN 0 - a ELSE a

Range(s) == { s[i] : i \in 1..Len(s) }

RECURSIVE Gcd(_, _)
Gcd(a, b) == IF b = 0 THEN a ELSE Gcd(b, a % b)

\* int(a * b / c) for positive a, b, c: the common factors are cancelled
\* before the multiplication
MulDiv(a, b, c) ==
    LET g1 == Gcd(b, c)
        g2 == Gcd(a, c \div g1)
    IN  ((a \div g2) * (b \div g1)) \div ((c \div g1) \div g2)

-----------------------------------------------------------------------------
(* Characters and strings.  A string is a sequence of one-character       *)
(* strings; Ord gives the code point of the characters the model uses.    *)

CodePoints ==
    { <<".", 46>>, <<"/", 47>>,
      <<"0", 48>>, <<"1", 49>>, <<"2", 50>>, <<"3", 51>>, <<"4", 52>>,
      <<"5", 53>>, <<"6", 54>>, <<"7", 55>>, <<"8", 56>>, <<"9", 57>>,
      <<"G", 71>>, <<"I", 73>>, <<"M", 77>>,
      <<"a", 97>>, <<"b", 98>>, <<"c", 99>>, <<"e", 101>>, <<"g", 103>>,
      <<"i", 105>>,
      <<"j", 106>>, <<"m", 109>>, <<"n", 110>>, <<"p", 112>>, <<"w", 119>> }

OrdTable == [c \in { p[1] : p \in CodePoints } |->
                (CHOOSE p \in CodePoints : p[1] = c)[2]]

ChrTable == [n \in { p[2] : p \in CodePoints } |->
                (CHOOSE p \in CodePoints : p[2] = n)[1]]

\* ord(c)
Ord(c) == OrdTable[c]

\* chr(n)
Chr(n) == ChrTable[n]

IsDigitChar(c) == Ord(c) >= 48 /\ Ord(c) <= 57

IsUpperChar(c) == Ord(c) >= 65 /\ Ord(c) <= 90

LowerChar(c) == IF IsUpperChar(c) THEN Chr(Ord(c) + 32) ELSE c

\* str.lower()
Lower(s) == [i \in 1..Len(s) |-> LowerChar(s[i])]

\* str.isdigit(): non-empty and every character a digit
IsDigit(s) == Len(s) > 0 /\ \A i \in 1..Len(s) : IsDigitChar(s[i])

\* int(text) of a digit run
RECURSIVE ToInt(_)
ToInt(s) ==
    IF Len(s) = 0 THEN 0
    ELSE 10 * ToInt(SubSeq(s, 1, Len(s) - 1)) + (Ord(s[Len(s)]) - 48)

\* str.endswith
EndsWith(s, suffix) ==
    /\ Len(s) >= Len(suffix)
    /\ SubSeq(s, Len(s) - Len(suffix) + 1, Len(s)) = suffix

\* os.path.basename: what follows the last "/"
Basename(s) ==
    IF \E i \in 1..Len(s) : s[i] = "/"
    THEN LET i == CHOOSE k \in 1..Len(s) : s[k] = "/" /\ \A j \in (k+1)..Len(s) : s[j] # "/"
         IN  SubSeq(s, i + 1, Len(s))
    ELSE s

\* string comparison by code points: s < t
RECURSIVE StrLess(_, _)
StrLess(s, t) ==
    IF Len(t) = 0 THEN FALSE
    ELSE IF Len(s) = 0 THEN TRUE
    ELSE IF Ord(s[1]) # Ord(t[1]) THEN Ord(s[1]) < Ord(t[1])
    ELSE StrLess(Tail(s), Tail(t))

-----------------------------------------------------------------------------
(* natural_sort_key, lines 31-34 *)

\* length of the longest prefix of s without a digit
RECURSIVE TextPrefixLen(_)
TextPrefixLen(s) ==
    IF Len(s) = 0 \/ IsDigitChar(s[1]) THEN 0 ELSE 1 + TextPrefixLen(Tail(s))

\* length of the longest prefix of s made of digits
RECURSIVE DigitPrefixLen(_)
DigitPrefixLen(s) ==
    IF Len(s) = 0 \/ ~IsDigitChar(s[1]) THEN 0 ELSE 1 + DigitPrefixLen(Tail(s))

\* re.split('([0-9]+)', s): text, digits, text, ..., text (a text may be empty)
RECURSIVE ReSplit(_)
ReSplit(s) ==
    LET n == TextPrefixLen(s) IN
    IF n = Len(s) THEN << s >>
    ELSE LET rest == SubSeq(s, n + 1, Len(s))
             m    == DigitPrefixLen(rest)
         IN  << SubSeq(s, 1, n), SubSeq(rest, 1, m) >>
                 \o ReSplit(SubSeq(rest, m + 1, Len(rest)))

\* one element of the key: int(text) if text.isdigit() else text.lower()
KeyElem(text) ==
    IF IsDigit(text) THEN [isint |-> TRUE,  n |-> ToInt(text), s |-> << >>]
                     ELSE [isint |-> FALSE, n |-> 0,           s |-> Lower(text)]

\* the key without the integer conversion: the lower-cased base name as one text
LexicographicKey(s) == << [isint |-> FALSE, n |-> 0, s |-> Lower(Basename(s))] >>

natural_sort_key(s) ==
    LET parts == ReSplit(Basename(s))
    IN  [i \in 1..Len(parts) |-> KeyElem(parts[i])]

\* a < b for two key elements; Python raises TypeError for an int against a
\* str, which the alternation of re.split never produces (no such case here)
KeyElemLess(a, b) ==
    CASE a.isint /\ b.isint   -> a.n < b.n
      [] ~a.isint /\ ~b.isint -> StrLess(a.s, b.s)

\* k1 < k2 for two keys: Python's list comparison
RECURSIVE KeyLess(_, _)
KeyLess(k1, k2) ==
    IF Len(k2) = 0 THEN FALSE
    ELSE IF Len(k1) = 0 THEN TRUE
    ELSE IF k1[1] # k2[1] THEN KeyElemLess(k1[1], k2[1])
    ELSE KeyLess(Tail(k1), Tail(k2))


-----------------------------------------------------------------------------
(* The files the input directory may hold.  A file has a name and a        *)
(* content: the format PIL identifies ("NONE": the file cannot be opened), *)
(* its pixel size, the 'dpi' entry of img.info (<< >> when absent) and     *)
(* whether its pixel data is truncated (the header opens, a load fails).   *)
(* PIL reports no 'dpi' for a WebP file, so a WebP source is processed at  *)
(* IMAGE_DPI.                                                              *)

FileNames ==
    { << "i", "m", "g", "1", ".", "p", "n", "g" >>,
      << "i", "m", "g", "2", ".", "p", "n", "g" >>,
      << "i", "m", "g", "1", "0", ".", "p", "n", "g" >>,
      << "i", "m", "g", "0", "1", ".", "p", "n", "g" >>,
      << "a", ".", "w", "e", "b", "p" >>,
      << "b", ".", "w", "e", "b", "p" >>,
      << "I", "M", "G", "3", ".", "w", "e", "b", "p" >>,
      << "c", ".", "j", "p", "g" >> }

Content(name) ==
    CASE name = << "i", "m", "g", "1", ".", "p", "n", "g" >>               -> [fmt |-> "PNG",  w |-> 1000,  h |-> 500,  dpi_info |-> << >>,       truncated |-> FALSE]
      [] name = << "i", "m", "g", "2", ".", "p", "n", "g" >>               -> [fmt |-> "NONE", w |-> 0,     h |-> 0,    dpi_info |-> << >>,       truncated |-> FALSE]
      [] name = << "i", "m", "g", "1", "0", ".", "p", "n", "g" >>          -> [fmt |-> "PNG",  w |-> 595,   h |-> 842,  dpi_info |-> <<72, 72>>,  truncated |-> FALSE]
      [] name = << "i", "m", "g", "0", "1", ".", "p", "n", "g" >>          -> [fmt |-> "PNG",  w |-> 3000,  h |-> 1,    dpi_info |-> << >>,       truncated |-> FALSE]
      [] name = << "a", ".", "w", "e", "b", "p" >>                         -> [fmt |-> "WEBP", w |-> 10332, h |-> 14616, dpi_info |-> << >>,      truncated |-> FALSE]
      [] name = << "b", ".", "w", "e", "b", "p" >>                         -> [fmt |-> "PNG",  w |-> 595,   h |-> 842,  dpi_info |-> <<72, 72>>,  truncated |-> TRUE]
      [] name = << "I", "M", "G", "3", ".", "w", "e", "b", "p" >>          -> [fmt |-> "WEBP", w |-> 2480,  h |-> 3508, dpi_info |-> << >>,       truncated |-> FALSE]
      [] name = << "c", ".", "j", "p", "g" >>                              -> [fmt |-> "JPEG", w |-> 500,   h |-> 1000, dpi_info |-> <<96, 96>>,  truncated |-> TRUE]

INPUT_DIRECTORY == << "i", "n" >>

\* os.path.join(input_dir, name)
PathOf(name) == INPUT_DIRECTORY \o << "/" >> \o name

supported_formats ==
    << << ".", "p", "n", "g" >>, << ".", "j", "p", "g" >>,
       << ".", "j", "p", "e", "g" >>, << ".", "w", "e", "b", "p" >> >>

\* the key of every path of the directory, computed once
KeyTable == [p \in { PathOf(n) : n \in FileNames } |-> natural_sort_key(p)]

\* list.sort(key=natural_sort_key): a stable sort.  x goes before the first
\* element whose key is greater than its own.
RECURSIVE InsertPath(_, _)
InsertPath(sorted, x) ==
    IF Len(sorted) = 0 THEN << x >>
    ELSE IF KeyLess(KeyTable[x], KeyTable[sorted[1]])
         THEN << x >> \o sorted
         ELSE << sorted[1] >> \o InsertPath(Tail(sorted), x)

RECURSIVE SortPaths(_)
SortPaths(s) ==
    IF Len(s) = 0 THEN << >>
    ELSE InsertPath(SortPaths(SubSeq(s, 1, Len(s) - 1)), s[Len(s)])

\* glob.glob(os.path.join(input_dir, '*' + ext)) over a directory listing
GlobExt(listing, ext) ==
    LET hits == SelectSeq(listing, LAMBDA n : EndsWith(n, ext))
    IN  [i \in 1..Len(hits) |-> PathOf(hits[i])]

\* lines 180-183: the globs of the supported formats, one after the other
RECURSIVE GlobAll(_, _)
GlobAll(listing, k) ==
    IF k > Len(supported_formats) THEN << >>
    ELSE GlobExt(listing, supported_formats[k]) \o GlobAll(listing, k + 1)

\* the orders in which the operating system may list a set of files
Listings(files) ==
    { l \in [1..Cardinality(files) -> files] : Range(l) = files }

-----------------------------------------------------------------------------
(* Geometry.  A length in points is a rational [n, d] = n / d.             *)

Rat(n, d) == [n |-> n, d |-> d]

RatLeq(a, b) == a.n * b.d <= b.n * a.d

\* the page in inches: 210 mm and 297 mm, 25.4 mm to the inch
PageInches == << Rat(1050, 127), Rat(1485, 127) >>

\* reportlab.lib.pagesizes.A4 = (210*mm, 297*mm) in points, 72 to the inch
A4 == << Rat(72 * PageInches[1].n, PageInches[1].d),
         Rat(72 * PageInches[2].n, PageInches[2].d) >>

\* round(A4[k] * dpi / 72): to the nearest pixel in place of the truncation
PagePixelsRounded(k, dpi) ==
    (2 * PageInches[k].n * dpi + PageInches[k].d) \div (2 * PageInches[k].d)

\* int(A4[k] * dpi / 72)
PagePixels(k, dpi) == (PageInches[k].n * dpi) \div PageInches[k].d

\* lines 77-80: width_ratio < height_ratio, i.e. A4[0]/w < A4[1]/h (the two
\* page lengths have the same denominator)
WidthConstrains(w, h) == PageInches[1].n * h < PageInches[2].n * w

\* lines 80-85: (new_width, new_height)
FitPixels(w, h, dpi) ==
    IF WidthConstrains(w, h)
    THEN << PagePixels(1, dpi),
            MulDiv(h, PageInches[1].n * dpi, w * PageInches[1].d) >>
    ELSE << MulDiv(w, PageInches[2].n * dpi, h * PageInches[2].d),
            PagePixels(2, dpi) >>

\* lines 52-53: (target_width, target_height) of needs_resize, which scales
\* the size it is given by dpi / 72
ResizeTarget(target_size, dpi) ==
    << (target_size[1] * dpi) \div 72, (target_size[2] * dpi) \div 72 >>

\* lines 56-57 with the divisions guarded against a zero target
NeverRaises(img_size, target_size, dpi) == FALSE

\* lines 56-57 divide by target_width and target_height: ZeroDivisionError
needs_resize_raises(img_size, target_size, dpi) ==
    \/ ResizeTarget(target_size, dpi)[1] = 0
    \/ ResizeTarget(target_size, dpi)[2] = 0

\* lines 49-59, when it does not raise: a difference above 1% on either axis
needs_resize(img_size, target_size, dpi) ==
    LET t == ResizeTarget(target_size, dpi)
    IN  \/ Abs(img_size[1] - t[1]) * 100 > t[1]
        \/ Abs(img_size[2] - t[2]) * 100 > t[2]

-----------------------------------------------------------------------------
(* process_image_chunk, lines 61-124 *)

\* line 67
IsWebpName(image_path) == EndsWith(Lower(image_path), << ".", "w", "e", "b", "p" >>)

\* lines 72-74
DpiOf(content) ==
    IF content.dpi_info = << >> THEN IMAGE_DPI ELSE content.dpi_info[1]

\* lines 101-102: the bytes of the file
FileBytes(image_path) == [kind |-> "file", path |-> image_path]

\* lines 96-98: the image, resized or not, saved as WEBP
Encoded(image_path, size) ==
    [kind |-> "encoded", path |-> image_path, format |-> "WEBP",
     size |-> size, quality |-> WEBP_QUALITY]

Failure(index, error) == [success |-> FALSE, error |-> error, index |-> index]

\* the body of the loop, lines 65-122: the result of one (index, image_path)
ProcessItem(index, image_path) ==
    LET content  == Content(Basename(image_path))
        is_webp  == IsWebpName(image_path)
        dpi      == DpiOf(content)
        size     == << content.w, content.h >>
        new_size == FitPixels(content.w, content.h, dpi)
        resize   == needs_resize(size, new_size, dpi)
        needs_conversion == IF resize THEN TRUE ELSE ~is_webp
    IN  IF content.fmt = "NONE"
        THEN Failure(index, "cannot identify image file")
        ELSE IF needs_resize_raises(size, new_size, dpi)
        THEN Failure(index, "division by zero")
        ELSE IF needs_conversion /\ content.truncated
        THEN Failure(index, "image file is truncated")
        ELSE [success  |-> TRUE,
              buffer   |-> IF needs_conversion
                           THEN Encoded(image_path, IF resize THEN new_size ELSE size)
                           ELSE FileBytes(image_path),
              width    |-> Rat(new_size[1] * 72, dpi),
              height   |-> Rat(new_size[2] * 72, dpi),
              index    |-> index,
              original_format |-> IF is_webp THEN "WEBP"
                                  ELSE IF resize THEN "None" ELSE content.fmt,
              converted |-> needs_conversion]

\* a chunk whose first failing item ends the loop: the try around the for
RECURSIVE ChunkAbortingOnFailure(_)
ChunkAbortingOnFailure(chunk_data) ==
    IF Len(chunk_data) = 0 THEN << >>
    ELSE LET r == ProcessItem(chunk_data[1][1], chunk_data[1][2])
         IN  IF r.success THEN << r >> \o ChunkAbortingOnFailure(Tail(chunk_data))
             ELSE << r >>

process_image_chunk(chunk_data) ==
    [k \in 1..Len(chunk_data) |-> ProcessItem(chunk_data[k][1], chunk_data[k][2])]

-----------------------------------------------------------------------------
(* create_pdf_from_buffers, lines 126-161 *)

\* line 132: processed_results.sort(key=lambda x: x['index']), a stable sort
RECURSIVE InsertByIndex(_, _)
InsertByIndex(sorted, x) ==
    IF Len(sorted) = 0 THEN << x >>
    ELSE IF x.index < sorted[1].index
         THEN << x >> \o sorted
         ELSE << sorted[1] >> \o InsertByIndex(Tail(sorted), x)

\* the results left in their order of arrival: the sort forgotten
Unsorted(results) == results

RECURSIVE SortByIndex(_)
SortByIndex(results) ==
    IF Len(results) = 0 THEN << >>
    ELSE InsertByIndex(SortByIndex(SubSeq(results, 1, Len(results) - 1)),
                       results[Len(results)])

\* lines 142-151: Image.open(buffer), ImageReader and drawImage succeed when the
\* payload decodes: always for what line 98 encoded, and for a file's own
\* bytes when its pixel data is complete
Drawable(buffer) ==
    IF buffer.kind = "encoded" THEN TRUE
    ELSE ~Content(Basename(buffer.path)).truncated

\* lines 138-139: x = (A4[0] - width) / 2, y = (A4[1] - height) / 2
Offset(page, length) ==
    Rat(page.n * length.d - length.n * page.d, 2 * page.d * length.d)

\* lines 138-151: the drawImage call of one result
Placement(result) ==
    [index  |-> result.index,
     x      |-> Offset(A4[1], result.width),
     y      |-> Offset(A4[2], result.height),
     width  |-> result.width,
     height |-> result.height]

\* showPage() moved to the finally clause: a page whatever the placement did
CommitAlways(ps, index, ok) == Append(ps, index)

\* lines 145-152: showPage() is reached only when drawImage did not raise
CommitPage(ps, index, ok) == IF ok THEN Append(ps, index) ELSE ps

\* the loop position after an item whose placement failed ends the loop
AbortAfter(results, p, ok) == IF ok THEN p + 1 ELSE Len(results) + 1

\* lines 134, 154-159: the exception is caught, the loop goes on
NextPos(results, p, ok) == p + 1

\* the close moved from the finally clause to the end of the try block
CloseOnSuccess(buffers, index, ok) ==
    IF ok THEN buffers \cup { index } ELSE buffers

\* lines 157-159: finally: result['buffer'].close()
BufferClose(buffers, index, ok) == buffers \cup { index }

-----------------------------------------------------------------------------
(* convert_images_to_pdf, lines 164-246 *)

\* line 193 with the test dropped
NeverEmpty(files) == FALSE

\* line 193: not image_files
NoImages(files) == Len(files) = 0

\* line 199: list(enumerate(image_files))
Enumerate(files) == [i \in 1..Len(files) |-> << i - 1, files[i] >>]

\* indexed_files[i:i + size + 1]: each slice one item longer than the step
OverlappingChunks(indexed_files, size) ==
    LET n == Len(indexed_files)
    IN  [c \in 1..((n + size - 1) \div size) |->
            SubSeq(indexed_files, (c - 1) * size + 1, Min(c * size + 1, n))]

\* range(0, len - size + 1, size): a short last slice is left out
WholeChunksOnly(indexed_files, size) ==
    LET n == Len(indexed_files)
    IN  [c \in 1..(n \div size) |->
            SubSeq(indexed_files, (c - 1) * size + 1, c * size)]

\* lines 202-203: indexed_files[i:i + size] for i in range(0, len, size)
Chunks(indexed_files, size) ==
    LET n == Len(indexed_files)
    IN  [c \in 1..((n + size - 1) \div size) |->
            SubSeq(indexed_files, (c - 1) * size + 1, Min(c * size, n))]

\* line 206 without len(chunks)
WorkerCountIgnoringChunks(mw, cpu, nchunks) == Min(mw, cpu)

\* line 206
WorkerCount(mw, cpu, nchunks) == Min(Min(mw, cpu), nchunks)

\* all_results = chunk_results in place of the extend
Overwrite(results, chunk_results) == chunk_results

\* line 224: all_results.extend(chunk_results)
Extend(results, chunk_results) == results \o chunk_results

\* result.get('converted', True) read outside the test of result['success']
RECURSIVE CountConvertedOrFailed(_)
CountConvertedOrFailed(chunk_results) ==
    IF Len(chunk_results) = 0 THEN 0
    ELSE (IF ~chunk_results[1].success \/ chunk_results[1].converted THEN 1 ELSE 0)
         + CountConvertedOrFailed(Tail(chunk_results))

\* lines 218-223: the two counters after one chunk's results
RECURSIVE CountConverted(_)
CountConverted(chunk_results) ==
    IF Len(chunk_results) = 0 THEN 0
    ELSE (IF chunk_results[1].success /\ chunk_results[1].converted THEN 1 ELSE 0)
         + CountConverted(Tail(chunk_results))

RECURSIVE CountSkipped(_)
CountSkipped(chunk_results) ==
    IF Len(chunk_results) = 0 THEN 0
    ELSE (IF chunk_results[1].success /\ ~chunk_results[1].converted THEN 1 ELSE 0)
         + CountSkipped(Tail(chunk_results))

\* a loop over imap_unordered left after the first chunk's results
FirstResultEnds(n_reported, chunk_list) == n_reported >= 1

\* lines 214-225: the with block is left once imap_unordered has yielded the
\* results of every chunk
ImapExhausted(n_reported, chunk_list) == n_reported = Len(chunk_list)

\* a handler that logs and returns: the caller sees a completed run
Swallowed == "done"

\* lines 244-246: except Exception: the error is logged and raised again
Reraised == "raised"

\* line 228
Successes(results) == SelectSeq(results, LAMBDA r : r.success)

\* lines 239-241: the counts the run logs
SummaryOf(files, converted, skipped) ==
    [total |-> Len(files), converted |-> converted, skipped |-> skipped]

-----------------------------------------------------------------------------
(* The state machine *)

MaxWorkersChoices == { 0, 2, DEFAULT_MAX_WORKERS }

CpuChoices == { 1, 3 }

ChunkSizes == { 1, 2, CHUNK_SIZE }

Init ==
    /\ pc = "start"
    /\ directory \in { d \in SUBSET FileNames : Cardinality(d) <= MaxFiles }
    /\ max_workers \in MaxWorkersChoices
    /\ cpus \in CpuChoices
    /\ chunk_size \in ChunkSizes
    /\ discovered = << >>
    /\ image_files = << >>
    /\ chunks = << >>
    /\ n_workers = 0
    /\ pool_started = FALSE
    /\ dispatched = 0
    /\ running = {}
    /\ outqueue = << >>
    /\ reported = 0
    /\ all_results = << >>
    /\ converted_count = 0
    /\ skipped_count = 0
    /\ successful_results = << >>
    /\ doc_opened = FALSE
    /\ pos = 0
    /\ pages = << >>
    /\ placed = << >>
    /\ attempts = << >>
    /\ error_log = << >>
    /\ closed = {}
    /\ saved = 0
    /\ summary = << >>

\* lines 168-211: glob, sort, the empty test, enumerate, chunk, worker count
Prepare ==
    /\ pc = "start"
    /\ \E found \in { GlobAll(listing, 1) : listing \in Listings(directory) } :
         LET sorted == SortPaths(SortPaths(SortPaths(found)))
         IN  /\ discovered' = found
             /\ image_files' = sorted
             /\ IF NoImages(sorted)
                THEN /\ pc' = "returned"
                     /\ UNCHANGED << chunks, n_workers >>
                ELSE /\ chunks' = Chunks(Enumerate(sorted), chunk_size)
                     /\ n_workers' = WorkerCount(max_workers, cpus, Len(chunks'))
                     /\ pc' = "pool"
    /\ UNCHANGED << directory, max_workers, cpus, chunk_size, pool_started,
                    dispatched, running, outqueue, reported, all_results,
                    converted_count, skipped_count, successful_results,
                    doc_opened, pos, pages, placed, attempts, error_log, closed, saved,
                    summary >>

\* line 215: Pool(processes=n_workers) raises ValueError below one process;
\* the handler of lines 244-246 logs and re-raises
StartPool ==
    /\ pc = "pool"
    /\ IF n_workers < 1
       THEN pc' = Reraised /\ UNCHANGED pool_started
       ELSE pc' = "imap" /\ pool_started' = TRUE
    /\ UNCHANGED << directory, max_workers, cpus, chunk_size, discovered,
                    image_files, chunks, n_workers, dispatched, running,
                    outqueue, reported, all_results, converted_count,
                    skipped_count, successful_results, doc_opened, pos, pages, placed,
                    attempts, error_log, closed, saved, summary >>

\* an idle worker takes the next chunk of the pool's task queue
TakeChunk ==
    /\ pc = "imap"
    /\ dispatched < Len(chunks)
    /\ Cardinality(running) < n_workers
    /\ dispatched' = dispatched + 1
    /\ running' = running \cup { dispatched + 1 }
    /\ UNCHANGED << pc, directory, max_workers, cpus, chunk_size, discovered,
                    image_files, chunks, n_workers, pool_started, outqueue,
                    reported, all_results, converted_count, skipped_count,
                    successful_results, doc_opened, pos, pages, placed, attempts,
                    error_log, closed, saved, summary >>

\* a worker returns process_image_chunk(chunk): the result joins the pool's
\* result queue in the order of completion
FinishChunk(c) ==
    /\ pc = "imap"
    /\ c \in running
    /\ running' = running \ { c }
    /\ outqueue' = Append(outqueue, process_image_chunk(chunks[c]))
    /\ UNCHANGED << pc, directory, max_workers, cpus, chunk_size, discovered,
                    image_files, chunks, n_workers, pool_started, dispatched,
                    reported, all_results, converted_count, skipped_count,
                    successful_results, doc_opened, pos, pages, placed, attempts,
                    error_log, closed, saved, summary >>

\* lines 217-225: one turn of the loop over pool.imap_unordered
Report ==
    /\ pc = "imap"
    /\ reported < Len(outqueue)
    /\ LET chunk_results == outqueue[reported + 1]
       IN  /\ converted_count' = converted_count + CountConverted(chunk_results)
           /\ skipped_count' = skipped_count + CountSkipped(chunk_results)
           /\ all_results' = Extend(all_results, chunk_results)
    /\ reported' = reported + 1
    /\ UNCHANGED << pc, directory, max_workers, cpus, chunk_size, discovered,
                    image_files, chunks, n_workers, pool_started, dispatched,
                    running, outqueue, successful_results, doc_opened, pos,
                    pages, placed, attempts, error_log, closed, saved, summary >>

\* line 228, once imap_unordered is exhausted and the pool is left
Aggregate ==
    /\ pc = "imap"
    /\ ImapExhausted(reported, chunks)
    /\ successful_results' = Successes(all_results)
    /\ pc' = "compose"
    /\ UNCHANGED << directory, max_workers, cpus, chunk_size, discovered,
                    image_files, chunks, n_workers, pool_started, dispatched,
                    running, outqueue, reported, all_results, converted_count,
                    skipped_count, doc_opened, pos, pages, placed, attempts, error_log,
                    closed, saved, summary >>

\* lines 128-132: the canvas is created and the results are sorted by index
OpenDocument ==
    /\ pc = "compose"
    /\ doc_opened' = TRUE
    /\ successful_results' = SortByIndex(successful_results)
    /\ pos' = 1
    /\ pc' = "place"
    /\ UNCHANGED << directory, max_workers, cpus, chunk_size, discovered,
                    image_files, chunks, n_workers, pool_started, dispatched,
                    running, outqueue, reported, all_results, converted_count,
                    skipped_count, pages, placed, attempts, error_log, closed, saved,
                    summary >>

\* line 128: canvas.Canvas(...) raises; create_pdf_from_buffers has no handler
\* around it, the handler of lines 244-246 logs and re-raises
OpenDocumentRaises ==
    /\ pc = "compose"
    /\ pc' = Reraised
    /\ UNCHANGED << directory, max_workers, cpus, chunk_size, discovered,
                    image_files, chunks, n_workers, pool_started, dispatched,
                    running, outqueue, reported, all_results, converted_count,
                    skipped_count, successful_results, doc_opened, pos, pages,
                    placed, attempts, error_log, closed, saved, summary >>

\* lines 134-159: one turn of the compositor's loop
PlaceItem ==
    /\ pc = "place"
    /\ pos <= Len(successful_results)
    /\ LET result == successful_results[pos]
           ok     == Drawable(result.buffer)
       IN  IF result.success
           THEN /\ attempts' = Append(attempts, result.index)
                /\ pages' = CommitPage(pages, result.index, ok)
                /\ placed' = IF ok THEN Append(placed, Placement(result))
                                  ELSE placed
                /\ error_log' = IF ok THEN error_log
                                ELSE Append(error_log, result.index)
                /\ closed' = BufferClose(closed, result.index, ok)
                /\ pos' = NextPos(successful_results, pos, ok)
           ELSE /\ pos' = pos + 1
                /\ UNCHANGED << attempts, pages, placed, error_log, closed >>
    /\ UNCHANGED << pc, directory, max_workers, cpus, chunk_size, discovered,
                    image_files, chunks, n_workers, pool_started, dispatched,
                    running, outqueue, reported, all_results, converted_count,
                    skipped_count, successful_results, doc_opened, saved,
                    summary >>

\* line 161: c.save()
SaveDocument ==
    /\ pc = "place"
    /\ pos > Len(successful_results)
    /\ saved' = saved + 1
    /\ pc' = "summary"
    /\ UNCHANGED << directory, max_workers, cpus, chunk_size, discovered,
                    image_files, chunks, n_workers, pool_started, dispatched,
                    running, outqueue, reported, all_results, converted_count,
                    skipped_count, successful_results, doc_opened, pos, pages, placed,
                    attempts, error_log, closed, summary >>

\* line 161: c.save() raises (the output file cannot be written); the handler
\* of lines 244-246 logs and re-raises
SaveDocumentRaises ==
    /\ pc = "place"
    /\ pos > Len(successful_results)
    /\ pc' = Reraised
    /\ UNCHANGED << directory, max_workers, cpus, chunk_size, discovered,
                    image_files, chunks, n_workers, pool_started, dispatched,
                    running, outqueue, reported, all_results, converted_count,
                    skipped_count, successful_results, doc_opened, pos, pages,
                    placed, attempts, error_log, closed, saved, summary >>

\* lines 234-242: the counts of the run are logged
Summarize ==
    /\ pc = "summary"
    /\ summary' = SummaryOf(image_files, converted_count, skipped_count)
    /\ pc' = "done"
    /\ UNCHANGED << directory, max_workers, cpus, chunk_size, discovered,
                    image_files, chunks, n_workers, pool_started, dispatched,
                    running, outqueue, reported, all_results, converted_count,
                    skipped_count, successful_results, doc_opened, pos, pages, placed,
                    attempts, error_log, closed, saved >>

Next ==
    \/ Prepare
    \/ StartPool
    \/ TakeChunk
    \/ \E c \in 1..Len(chunks) : FinishChunk(c)
    \/ Report
    \/ Aggregate
    \/ OpenDocument
    \/ OpenDocumentRaises
    \/ PlaceItem
    \/ SaveDocument
    \/ SaveDocumentRaises
    \/ Summarize

Spec == Init /\ [][Next]_vars

-----------------------------------------------------------------------------
(* Vocabulary of the properties *)

\* every chunk has reported: the loop over imap_unordered is exhausted
AllReported ==
    \/ pc = "imap" /\ reported = Len(chunks)
    \/ pc \in { "compose", "place", "summary", "done" }

\* the compositor has returned
Composed == pc \in { "summary", "done" }

TaskIndices == { i - 1 : i \in 1..Len(image_files) }

SuccessIndices == { all_results[k].index : k \in { j \in 1..Len(all_results) : all_results[j].success } }

FailureIndices == { all_results[k].index : k \in { j \in 1..Len(all_results) : ~all_results[j].success } }

\* the members of a set of integers in ascending order
RECURSIVE Ascending(_)
Ascending(S) ==
    IF S = {} THEN << >>
    ELSE LET m == CHOOSE x \in S : \A y \in S : x <= y
         IN  << m >> \o Ascending(S \ { m })

StrictlyAscending(s) == \A i, j \in 1..Len(s) : i < j => s[i] < s[j]

\* the result the run holds for task index i
ResultsOf(i) == { k \in 1..Len(all_results) : all_results[k].index = i }

\* two results arrived in the opposite order of their indices
ArrivedOutOfOrder ==
    \E i, j \in 1..Len(all_results) :
        /\ i < j
        /\ all_results[i].index > all_results[j].index
        /\ all_results[i].success /\ all_results[j].success

-----------------------------------------------------------------------------
-----------------------------------------------------------------------------
(* C2: completeness.  Once every chunk has reported, the Success results   *)
(* and the Failure results of all_results together are as many as the      *)
(* input tasks, and every task index has a result: none is dropped.        *)
C2_Completeness ==
    AllReported =>
        /\ Cardinality({ k \in 1..Len(all_results) : all_results[k].success })
             + Cardinality({ k \in 1..Len(all_results) : ~all_results[k].success })
             = Len(image_files)
        /\ \A i \in TaskIndices : ResultsOf(i) # {}

C2_Witness ==
    /\ AllReported
    /\ Len(chunks) >= 2
    /\ SuccessIndices # {}
    /\ FailureIndices # {}

-----------------------------------------------------------------------------
(* C3: isolation under failure.  Once every chunk has reported, each task  *)
(* has exactly one result, carrying its index, and that result is the one  *)
(* the task yields when it is processed alone: a failing task yields a     *)
(* Failure and changes no other task's result, in its chunk or elsewhere.  *)
(* Once the compositor has returned, every task that succeeds and draws    *)
(* alone has its page.                                                     *)
C3_Isolation ==
    /\ AllReported =>
         \A i \in TaskIndices :
            /\ Cardinality(ResultsOf(i)) = 1
            /\ \A k \in ResultsOf(i) :
                 all_results[k] = process_image_chunk(<< << i, image_files[i + 1] >> >>)[1]
    /\ Composed =>
         \A i \in TaskIndices :
            LET alone == process_image_chunk(<< << i, image_files[i + 1] >> >>)[1]
            IN  (alone.success /\ Drawable(alone.buffer)) => i \in Range(pages)

\* a task fails and a later task of the same chunk succeeds and has its page,
\* and so does a task of another chunk
C3_Witness ==
    /\ pc = "done"
    /\ \E c \in 1..Len(chunks) : \E k, m \in 1..Len(chunks[c]) :
          /\ k < m
          /\ chunks[c][k][1] \in FailureIndices
          /\ chunks[c][m][1] \in Range(pages)
          /\ \E d \in 1..Len(chunks) : \E n \in 1..Len(chunks[d]) :
                d # c /\ chunks[d][n][1] \in Range(pages)

-----------------------------------------------------------------------------
(* C4: run summary.  As claimed: the summary logged after a completed run  *)
(* reports four counts, total, converted, passed through and failed, with  *)
(* failed the number of Failure results and                                *)
(* total = converted + passed through + failed.                            *)
C4_SummaryReportsFailures ==
    pc = "done" =>
        /\ DOMAIN summary = { "total", "converted", "skipped", "failed" }
        /\ summary.failed = Cardinality(FailureIndices)
        /\ summary.total = summary.converted + summary.skipped + summary.failed

-----------------------------------------------------------------------------
-----------------------------------------------------------------------------
(* C6: placement-failure isolation.  A placement failure is logged for     *)
(* that item only, every Success item has its placement attempted, once    *)
(* and in index order, whether or not an earlier placement failed, and     *)
(* the document is still saved.                                            *)
C6_PlacementIsolation ==
    /\ StrictlyAscending(attempts)
    /\ Range(error_log) \subseteq Range(attempts)
    /\ \A i \in Range(error_log) :
          \E k \in 1..Len(all_results) :
             /\ all_results[k].index = i
             /\ all_results[k].success
             /\ ~Drawable(all_results[k].buffer)
    /\ Cardinality(Range(error_log)) = Len(error_log)
    /\ Composed =>
          /\ attempts = Ascending(SuccessIndices)
          /\ saved = 1

\* a placement failed and a later item has its page in the saved document
C6_Witness ==
    /\ pc = "done"
    /\ saved = 1
    /\ \E i \in Range(error_log) : \E j \in Range(pages) : i < j

-----------------------------------------------------------------------------
(* C7: empty input.  When no image is discovered the run returns without   *)
(* creating a chunk, starting the pool, transforming a task or opening or  *)
(* saving a document.                                                      *)
C7_EmptyInput ==
    (pc # "start" /\ discovered = << >>) =>
        /\ pc = "returned"
        /\ image_files = << >>
        /\ chunks = << >>
        /\ ~pool_started
        /\ dispatched = 0 /\ running = {} /\ outqueue = << >>
        /\ all_results = << >>
        /\ ~doc_opened
        /\ pages = << >>
        /\ saved = 0

C7_Witness ==
    /\ pc = "returned"
    /\ discovered = << >>

-----------------------------------------------------------------------------
(* C8: idempotent passthrough.  As claimed: a task whose source is WebP    *)
(* and whose pixel width and height are both within 1% of the computed     *)
(* target pixel size (new_width, new_height) yields a Success whose        *)
(* payload is the bytes of the source file, marked not converted.          *)
WithinOnePercent(size, target) ==
    /\ Abs(size[1] - target[1]) * 100 <= target[1]
    /\ Abs(size[2] - target[2]) * 100 <= target[2]

C8_IdempotentPassthrough ==
    \A k \in 1..Len(all_results) :
        LET r       == all_results[k]
            path    == image_files[r.index + 1]
            content == Content(Basename(path))
        IN  ( /\ content.fmt = "WEBP"
              /\ IsWebpName(path)
              /\ ~content.truncated
              /\ WithinOnePercent(<< content.w, content.h >>,
                                  FitPixels(content.w, content.h, DpiOf(content))) )
            => /\ r.success
               /\ ~r.converted
               /\ r.buffer = FileBytes(path)

-----------------------------------------------------------------------------
(* C9: natural sort.  The sorted paths are a permutation of the discovered *)
(* ones, in non-descending order of their keys (base name split into text  *)
(* and digit runs, text compared case-insensitively, digits as integers);  *)
(* paths with equal keys keep their order of discovery; the index of each  *)
(* task is its rank; img2.png, img10.png, img1.png become img1.png,        *)
(* img2.png, img10.png, and IMG3.webp comes after img2.png.                *)
PositionIn(s, x) == CHOOSE i \in 1..Len(s) : s[i] = x

Img1 == PathOf(<< "i", "m", "g", "1", ".", "p", "n", "g" >>)

Img2 == PathOf(<< "i", "m", "g", "2", ".", "p", "n", "g" >>)

Img10 == PathOf(<< "i", "m", "g", "1", "0", ".", "p", "n", "g" >>)

IMG3 == PathOf(<< "I", "M", "G", "3", ".", "w", "e", "b", "p" >>)

C9_NaturalSort ==
    pc # "start" =>
        /\ Len(image_files) = Len(discovered)
        /\ Range(image_files) = Range(discovered)
        /\ \A i, j \in 1..Len(image_files) :
              i < j =>
                /\ ~KeyLess(KeyTable[image_files[j]],
                            KeyTable[image_files[i]])
                /\ KeyTable[image_files[i]] = KeyTable[image_files[j]]
                      => PositionIn(discovered, image_files[i])
                           < PositionIn(discovered, image_files[j])
        /\ \A c \in 1..Len(chunks) : \A k \in 1..Len(chunks[c]) :
              image_files[chunks[c][k][1] + 1] = chunks[c][k][2]
        /\ discovered = << Img2, Img10, Img1 >>
              => image_files = << Img1, Img2, Img10 >>
        /\ (Img2 \in Range(image_files) /\ IMG3 \in Range(image_files))
              => PositionIn(image_files, Img2) < PositionIn(image_files, IMG3)

C9_Witness ==
    /\ discovered = << Img2, Img10, Img1 >>
    /\ image_files = << Img1, Img2, Img10 >>
    /\ Len(chunks) = 3

\* two paths with the same key, sorted against their code-point order
C9_TieReached ==
    \E i, j \in 1..Len(image_files) :
        /\ i < j
        /\ KeyTable[image_files[i]] = KeyTable[image_files[j]]
        /\ StrLess(image_files[j], image_files[i])

-----------------------------------------------------------------------------
(* C10: aspect-preserving fit.  For every Success result the placed width  *)
(* and height do not exceed the page (the centering offsets x and y are    *)
(* not negative), one axis is the constraining one (one more target pixel  *)
(* would exceed the page), and the placed size in target pixels            *)
(* (new_width, new_height) is the truncation of a size of the source's     *)
(* aspect ratio; a 1000 x 500 image at 300 dpi is placed as 2480 x 1240    *)
(* pixels.                                                                 *)
PlusOnePixel(length) == Rat(length.n + 72, length.d)

C10_SizeFits(r, content) ==
    LET nw == r.width.n \div 72
        nh == r.height.n \div 72
    IN  /\ r.width.n > 0 /\ r.height.n > 0
        /\ RatLeq(r.width, A4[1])
        /\ RatLeq(r.height, A4[2])
        /\ \/ ~RatLeq(PlusOnePixel(r.width), A4[1])
           \/ ~RatLeq(PlusOnePixel(r.height), A4[2])
        /\ nw * content.h < (nh + 1) * content.w
        /\ nh * content.w < (nw + 1) * content.h
        /\ (content.w = 1000 /\ content.h = 500 /\ r.width.d = 300)
              => (nw = 2480 /\ nh = 1240)

C10_AspectPreservingFit ==
    /\ \A k \in 1..Len(all_results) :
          all_results[k].success =>
             C10_SizeFits(all_results[k],
                          Content(Basename(image_files[all_results[k].index + 1])))
    /\ \A k \in 1..Len(placed) :
          /\ placed[k].x.n >= 0 /\ placed[k].x.d > 0
          /\ placed[k].y.n >= 0 /\ placed[k].y.d > 0
          /\ \E j \in 1..Len(all_results) :
                /\ all_results[j].success
                /\ all_results[j].index = placed[k].index
                /\ all_results[j].width = placed[k].width
                /\ all_results[j].height = placed[k].height

\* pages of a width-constrained and of a height-constrained image
C10_Witness ==
    /\ pc = "done"
    /\ \E k \in 1..Len(placed) : ~RatLeq(PlusOnePixel(placed[k].width), A4[1])
    /\ \E k \in 1..Len(placed) : ~RatLeq(PlusOnePixel(placed[k].height), A4[2])

-----------------------------------------------------------------------------
(* C11: resize decision.  As claimed: an image is resized if and only if   *)
(* its pixel width or its pixel height differs by more than 1% from the    *)
(* computed target pixel size (new_width, new_height), at every dpi.  A    *)
(* Success whose source is within 1% of that target therefore carries the  *)
(* source's bytes or an encoding at the source's own pixel size, and every *)
(* other Success carries an encoding at the target pixel size.             *)
C11_ResizeDecision ==
    \A k \in 1..Len(all_results) :
        LET r       == all_results[k]
            content == Content(Basename(image_files[r.index + 1]))
            size    == << content.w, content.h >>
            target  == FitPixels(content.w, content.h, DpiOf(content))
        IN  r.success =>
               IF WithinOnePercent(size, target)
               THEN r.buffer.kind = "file" \/ r.buffer.size = size
               ELSE r.buffer.kind = "encoded" /\ r.buffer.size = target

-----------------------------------------------------------------------------
(* C12: exactly-once transformation.  Under every interleaving of the      *)
(* workers each task index stands in exactly one chunk, each chunk is      *)
(* taken by a worker at most once, each task is transformed at most once   *)
(* and has at most one result; once every chunk has reported, each task    *)
(* has been transformed exactly once and has exactly one result, and no    *)
(* result carries an index that is not a task's.                           *)
ChunkSlots(i) ==
    { ck \in { << c, k >> : c \in 1..Len(chunks), k \in 1..CHUNK_SIZE } :
         /\ ck[2] <= Len(chunks[ck[1]])
         /\ chunks[ck[1]][ck[2]][1] = i }

TransformedSlots(i) ==
    { qk \in { << q, k >> : q \in 1..Len(outqueue), k \in 1..CHUNK_SIZE } :
         /\ qk[2] <= Len(outqueue[qk[1]])
         /\ outqueue[qk[1]][qk[2]].index = i }

C12_ExactlyOnce ==
    /\ dispatched <= Len(chunks)
    /\ Len(outqueue) + Cardinality(running) = dispatched
    /\ \A k \in 1..Len(all_results) : all_results[k].index \in TaskIndices
    /\ \A i \in TaskIndices :
          /\ Cardinality(ChunkSlots(i)) = 1
          /\ Cardinality(TransformedSlots(i)) <= 1
          /\ Cardinality(ResultsOf(i)) <= 1
          /\ AllReported => /\ Cardinality(TransformedSlots(i)) = 1
                            /\ Cardinality(ResultsOf(i)) = 1

\* three tasks in two chunks whose results arrived against the index order
C12_Witness ==
    /\ pc = "done"
    /\ Len(image_files) = 3
    /\ Len(chunks) = 2
    /\ all_results[1].index > all_results[3].index

-----------------------------------------------------------------------------
(* C13: chunking is a contiguous partition.  Once the chunks are built,    *)
(* every chunk is non-empty and holds at most chunk_size tasks, every      *)
(* chunk but the last holds exactly chunk_size, the chunks concatenated in *)
(* order are the enumerated list of the sorted paths, and the number of    *)
(* chunks is the ceiling of n / chunk_size.                                *)
RECURSIVE Concatenated(_)
Concatenated(chunk_list) ==
    IF Len(chunk_list) = 0 THEN << >>
    ELSE chunk_list[1] \o Concatenated(Tail(chunk_list))

C13_ContiguousPartition ==
    pc # "start" =>
        /\ \A c \in 1..Len(chunks) :
              /\ Len(chunks[c]) >= 1
              /\ Len(chunks[c]) <= chunk_size
              /\ c < Len(chunks) => Len(chunks[c]) = chunk_size
        /\ Concatenated(chunks) = Enumerate(image_files)
        /\ Len(chunks) * chunk_size >= Len(image_files)
        /\ (Len(chunks) - 1) * chunk_size < Len(image_files)

\* three tasks in chunks of two: a full chunk and a short last one
C13_Witness ==
    /\ pc = "imap"
    /\ Len(image_files) = 3
    /\ chunk_size = 2
    /\ Len(chunks) = 2
    /\ Len(chunks[2]) = 1

-----------------------------------------------------------------------------
(* C14: worker bound.  Once the pool has been asked for, the number of     *)
(* workers started is the smallest of the configured maximum, the number   *)
(* of processors and the number of chunks; at no time are more chunks in   *)
(* flight than workers were started, and never are more workers started    *)
(* than there are chunks or than is configured.                            *)
WorkersStarted == IF pool_started THEN n_workers ELSE 0

Smallest(S) == CHOOSE m \in S : \A x \in S : m <= x

C14_WorkerBound ==
    /\ pc \notin { "start", "returned", "pool" }
          => WorkersStarted = Smallest({ max_workers, cpus, Len(chunks) })
    /\ Cardinality(running) <= WorkersStarted
    /\ WorkersStarted <= Len(chunks)
    /\ WorkersStarted <= max_workers

\* every worker is busy while a chunk still waits in the task queue
C14_Witness ==
    /\ pc = "imap"
    /\ n_workers = 2
    /\ Cardinality(running) = 2
    /\ Len(chunks) = 3
    /\ dispatched = 2

-----------------------------------------------------------------------------
(* C15: composition is gated on the completion of the dispatch.  Whenever  *)
(* the results have been filtered, the document opened, or an item read or *)
(* placed, every chunk has been taken, has finished and has reported, and  *)
(* no chunk is in flight; and whenever the document is open, so before the *)
(* first page is placed, the results to place are in ascending index.      *)
CompositionBegun ==
    \/ pc \in { "compose", "place", "summary", "done" }
    \/ doc_opened
    \/ successful_results # << >>
    \/ attempts # << >>
    \/ pages # << >>
    \/ placed # << >>

C15_GatedComposition ==
    /\ CompositionBegun =>
          /\ dispatched = Len(chunks)
          /\ running = {}
          /\ Len(outqueue) = Len(chunks)
          /\ reported = Len(chunks)
    /\ (attempts # << >> \/ pages # << >> \/ placed # << >>) => doc_opened
    /\ doc_opened =>
          \A i, j \in 1..Len(successful_results) :
              i < j => successful_results[i].index < successful_results[j].index

\* a page is placed in a run of two chunks whose results arrived against the
\* index order
C15_Witness ==
    /\ pc = "place"
    /\ pages # << >>
    /\ Len(chunks) >= 2
    /\ ArrivedOutOfOrder

-----------------------------------------------------------------------------
(* C16: payload release.  No Success payload is read for placement more    *)
(* than once; at every moment of the compositor's loop the payloads        *)
(* released are exactly those whose placement has been attempted, whether  *)
(* the attempt succeeded or failed, so each is released before the next    *)
(* item is read; and once the compositor has returned, the payload of      *)
(* every Success result is released.                                       *)
C16_PayloadRelease ==
    /\ \A i, j \in 1..Len(attempts) : i # j => attempts[i] # attempts[j]
    /\ Range(attempts) \subseteq SuccessIndices
    /\ closed = Range(attempts)
    /\ Composed => closed = SuccessIndices

\* the payload of a failed placement is released while an item still waits
C16_Witness ==
    /\ pc = "place"
    /\ pos <= Len(successful_results)
    /\ error_log # << >>
    /\ Range(error_log) \subseteq closed

-----------------------------------------------------------------------------
(* C17: finalization.  The document is saved at most once; when it is      *)
(* saved, every Success result has had its placement attempt, in index     *)
(* order; a run that completes has saved it exactly once; and a run ended  *)
(* by an error outside the per-item handlers (the pool cannot be started,  *)
(* the document cannot be opened or written) ends with the error raised,   *)
(* the document never saved and no summary logged.                         *)
C17_Finalization ==
    /\ saved <= 1
    /\ saved = 1 => /\ pc \in { "summary", "done" }
                    /\ attempts = Ascending(SuccessIndices)
    /\ pc \in { "summary", "done" } => saved = 1
    /\ pc = "raised" => saved = 0 /\ summary = << >>

\* the document is saved after a run in which a placement failed
C17_Witness ==
    /\ pc = "done"
    /\ saved = 1
    /\ error_log # << >>
    /\ Len(attempts) >= 2

\* runs ended by an error: in the pool, at the canvas, at the save
C17_RaisedReached ==
    /\ pc = "raised"
    /\ attempts # << >>

-----------------------------------------------------------------------------
(* C18: encoding of the payloads.  As claimed: every Success payload is in *)
(* the WebP encoding, whether it was encoded by the transformer or is the  *)
(* untouched bytes of the source file; a source is passed through only     *)
(* when its content is WebP.                                               *)
PayloadFormat(buffer) ==
    IF buffer.kind = "encoded" THEN buffer.format
    ELSE Content(Basename(buffer.path)).fmt

C18_PayloadIsWebP ==
    \A k \in 1..Len(all_results) :
        all_results[k].success => PayloadFormat(all_results[k].buffer) = "WEBP"

-----------------------------------------------------------------------------
(* C19: summary consistency.  At every moment, and so once every chunk has *)
(* reported, converted_count is the number of Success results marked       *)
(* converted and skipped_count the number of Success results not marked    *)
(* converted among the results collected; their sum is the number of       *)
(* Success results, no Failure is counted, and the summary logs these two  *)
(* counts, in whatever order the chunks complete.                          *)
C19_SummaryConsistency ==
    LET successes == { k \in 1..Len(all_results) : all_results[k].success }
    IN  /\ converted_count
              = Cardinality({ k \in successes : all_results[k].converted })
        /\ skipped_count
              = Cardinality({ k \in successes : ~all_results[k].converted })
        /\ converted_count + skipped_count = Cardinality(successes)
        /\ AllReported =>
              converted_count + skipped_count = Cardinality(SuccessIndices)
        /\ pc = "done" => /\ summary.converted = converted_count
                          /\ summary.skipped = skipped_count

\* a converted, a passed-through and a failed task, reported against the
\* index order
C19_Witness ==
    /\ pc = "done"
    /\ converted_count >= 1
    /\ skipped_count >= 1
    /\ FailureIndices # {}
    /\ \E i, j \in 1..Len(all_results) :
          i < j /\ all_results[i].index > all_results[j].index

-----------------------------------------------------------------------------
(* C20: positive placed size.  Every Success result has a strictly         *)
(* positive placed width and height; a task whose image can be opened and  *)
(* whose computed target pixel width or height (new_width, new_height)     *)
(* truncates to 0 ends as a Failure result of that item, the error being   *)
(* the division by zero of needs_resize.                                   *)
C20_PositiveSize ==
    \A k \in 1..Len(all_results) :
        LET r       == all_results[k]
            content == Content(Basename(image_files[r.index + 1]))
        IN  /\ r.success => /\ r.width.n > 0 /\ r.width.d > 0
                            /\ r.height.n > 0 /\ r.height.d > 0
            /\ ( /\ content.fmt # "NONE"
                 /\ \E a \in 1..2 :
                       FitPixels(content.w, content.h, DpiOf(content))[a] = 0 )
               => /\ ~r.success
                  /\ r.error = "division by zero"

\* the 3000 x 1 image, whose target height truncates to 0, has failed next
\* to a Success of the same run
C20_Witness ==
    /\ pc = "done"
    /\ SuccessIndices # {}
    /\ \E k \in 1..Len(all_results) :
          /\ ~all_results[k].success
          /\ all_results[k].error = "division by zero"

====
